---- MODULE Spec2Model ----
(***************************************************************************)
(* Cart reservation model of the Artisan Coffee storefront.                *)
(*                                                                         *)
(* The cart store (zustand, persisted to local storage) of every client    *)
(* reserves units against the shared remote inventory table with           *)
(* read-then-write calls.  Each store action and each UI handler is one    *)
(* action of the model; the remote table is the variable inventory.        *)
(* The clock counts quarter hours.                                         *)
(***************************************************************************)
EXTENDS Integers, Sequences, FiniteSets, TLC

VARIABLES
    inventory,            \* remote table evn000r9yk8w: one record per product
    catalog,              \* per client: available_stock of each ProductWithInventory it last fetched
    items,                \* per client: CartStore.items
    reservationTimeouts,  \* per client: pending expiry timers, [id, due]
    nextReservation,      \* source of fresh reservation ids
    now,                  \* Date.now(), in quarter hours
    orders,               \* remote table evn0gqq0jvuo: the order records written
    price,                \* products table: the unit price of each product, in cents
    calls,                \* per client: the releaseReservation calls that run step by step
    committed,            \* history: the reservation ids of the lines a checkout attempt
                          \* deducted from the inventory and left in the cart
    adding,               \* per client: the addItem calls that run step by step
    user,                 \* AuthState.user of client c1, NoUser for null
    isAuthenticated,      \* AuthState.isAuthenticated of client c1
    saving,               \* the updateProfile calls of client c1 suspended on saveUserData
    userTable,            \* remote table evn0fugm9g5c: the stored record of the one account
    last,                 \* the last operation: its name, arguments and result
    before                \* history: per client and product, the inventory record as it was
                          \* before the client built its line, while nothing else wrote since

\* the variables the cart actions that run in one step leave alone
session == <<adding, user, isAuthenticated, saving, userTable>>

vars == <<inventory, catalog, items, reservationTimeouts, nextReservation, now, orders,
          price, calls, committed, last, before, session>>

----------------------------------------------------------------------------
(* Bounds of the model *)

MaxStock == 2
MaxQty == 2
MaxTime == 2
MaxReservations == 2
MaxOrders == 2
MaxHookStock == 10
MaxAddresses == 2

(* Program constants *)

\* 15 * 60 * 1000 ms = one quarter hour
\* AuthState.user === null, and the users table without a record of the account
NoUser == [email |-> "", name |-> "", shipping_addresses |-> <<>>]

RESERVATION_TIMEOUT == 1

Products == {"A", "B"}
Carts == {"c1", "c2"}

\* item.reservationId === undefined
NoReservation == 0

\* the prices of the first two sample products
SamplePrice(p) == IF p = "A" THEN 1899 ELSE 1699

\* item.product.product.price
Price(p) == price[p]

Max(a, b) == IF a >= b THEN a ELSE b

----------------------------------------------------------------------------
(* Helpers over CartStore.items *)

\* items.find(item => item.product.product._id === productId): index or 0
RECURSIVE FindFrom(_, _, _)
FindFrom(lines, p, i) ==
    IF i > Len(lines) THEN 0
    ELSE IF lines[i].product = p THEN i
    ELSE FindFrom(lines, p, i + 1)

FindProduct(lines, p) == FindFrom(lines, p, 1)

\* items.find(item => item.reservationId === reservationId): index or 0
RECURSIVE FindResFrom(_, _, _)
FindResFrom(lines, rid, i) ==
    IF i > Len(lines) THEN 0
    ELSE IF lines[i].reservationId = rid THEN i
    ELSE FindResFrom(lines, rid, i + 1)

FindReservation(lines, rid) == FindResFrom(lines, rid, 1)

KeepLines(lines, rid) == lines

\* items.filter(item => item.reservationId !== reservationId)
DropReservation(lines, rid) == SelectSeq(lines, LAMBDA l : l.reservationId # rid)

\* items.filter(item => item.product.product._id !== productId)
DropProduct(lines, p) == SelectSeq(lines, LAMBDA l : l.product # p)

\* getItemCount
getItemCount(lines, p) ==
    IF FindProduct(lines, p) = 0 THEN 0 ELSE lines[FindProduct(lines, p)].quantity

\* getTotalPrice
RECURSIVE getTotalPrice(_)
getTotalPrice(lines) ==
    IF lines = <<>> THEN 0
    ELSE Price(Head(lines).product) * Head(lines).quantity + getTotalPrice(Tail(lines))

\* reorderLevel of the seeded inventory records (15 units of 20 to 120 there)
ReorderLevel == 1

\* updateStock: the stock status of a record with this many units
StockStatus(stock, reorder_level) ==
    IF stock <= 0 THEN "out_of_stock"
    ELSE IF stock <= reorder_level THEN "low_stock"
    ELSE "in_stock"

\* initializeSampleData: the inventory record created for a product
SeededRecord(baseStock, reservedStock) ==
    [current_stock |-> baseStock, reserved_stock |-> reservedStock,
     reorder_level |-> ReorderLevel,
     stock_status |-> StockStatus(baseStock, ReorderLevel)]

\* CoffeeDataService.getProductsWithInventory: available_stock of one record
AvailableStock(rec) == Max(0, rec.current_stock - rec.reserved_stock)

----------------------------------------------------------------------------
(* Reservation management.  A store state is [inv, items, timers]: the     *)
(* remote inventory and the calling client's lines and pending timers.     *)

ReserveOneUnit(rec, quantity) == rec.reserved_stock + 1

\* reserveInventory: the new reserved_stock it writes
ReservedAfterReserve(rec, quantity) == rec.reserved_stock + quantity

\* reserveInventory(productId, quantity); ok = the remote calls succeed
reserveInventory(inv, p, quantity, ok) ==
    IF ok
    THEN [inv |-> [inv EXCEPT ![p].reserved_stock = ReservedAfterReserve(inv[p], quantity)],
          granted |-> TRUE]
    ELSE [inv |-> inv, granted |-> FALSE]

ReleaseOneUnit(rec, quantity) == Max(0, rec.reserved_stock - 1)

\* releaseReservation: the new reserved_stock it writes
ReservedAfterRelease(rec, quantity) == Max(0, rec.reserved_stock - quantity)

\* releaseReservation(reservationId); ok = the remote calls succeed
releaseReservation(st, rid, ok) ==
    LET i == FindReservation(st.items, rid) IN
    IF i = 0 THEN st
    ELSE IF ~ok THEN st
    ELSE LET item == st.items[i] IN
         [inv    |-> [st.inv EXCEPT ![item.product].reserved_stock =
                          ReservedAfterRelease(st.inv[item.product], item.quantity)],
          items  |-> DropReservation(st.items, rid),
          timers |-> {t \in st.timers : t.id # rid}]

\* removeItem(productId)
removeItem(st, p, ok) ==
    LET i   == FindProduct(st.items, p)
        st1 == IF i # 0 /\ st.items[i].reservationId # NoReservation
               THEN releaseReservation(st, st.items[i].reservationId, ok)
               ELSE st
    IN [st1 EXCEPT !.items = DropProduct(st1.items, p)]

\* clearCart: the loop over the lines read at its start
RECURSIVE ReleaseAll(_, _, _)
ReleaseAll(st, lines, ok) ==
    IF lines = <<>> THEN st
    ELSE ReleaseAll(IF Head(lines).reservationId # NoReservation
                    THEN releaseReservation(st, Head(lines).reservationId, ok)
                    ELSE st,
                    Tail(lines), ok)

\* clearCart()
clearCart(st, ok) == [ReleaseAll(st, st.items, ok) EXCEPT !.items = <<>>]

\* refreshReservations: is the line older than the timeout
Expired(item, t) == t - item.addedAt > RESERVATION_TIMEOUT

\* refreshReservations: the loop over the lines read at its start
RECURSIVE RefreshAll(_, _, _, _)
RefreshAll(st, lines, t, ok) ==
    IF lines = <<>> THEN st
    ELSE RefreshAll(IF Head(lines).reservationId # NoReservation /\ Expired(Head(lines), t)
                    THEN releaseReservation(st, Head(lines).reservationId, ok)
                    ELSE st,
                    Tail(lines), t, ok)

\* persist partialize, then rehydration: reservation ids are not persisted
Rehydrated(lines) ==
    [i \in 1..Len(lines) |-> [lines[i] EXCEPT !.reservationId = NoReservation]]

\* the store state of client c
Store(c) == [inv |-> inventory, items |-> items[c], timers |-> reservationTimeouts[c]]

\* the lines of one product
LinesOf(lines, p) == SelectSeq(lines, LAMBDA l : l.product = p)

\* history values: nothing remembered, or the record rec
Unknown == [known |-> FALSE, adds |-> 0, current_stock |-> 0, reserved_stock |-> 0]
Known(rec) == [known |-> TRUE, adds |-> 1, current_stock |-> rec.current_stock,
               reserved_stock |-> rec.reserved_stock]

\* what an operation leaves in last
Op(name, c, p, q, ret) ==
    [op |-> name, cart |-> c, product |-> p, quantity |-> q, ret |-> ret,
     was |-> before[c][p]]

\* what last holds after a step that is no cart operation
Env(name) ==
    [op |-> name, cart |-> "c1", product |-> "A", quantity |-> 0, ret |-> "void",
     was |-> Unknown]

\* the history after a step of client c on product p; added = the step was a
\* successful addItem.  A new line remembers the record it found, a merged line
\* keeps what it remembered and counts the addItem, and any other write to the
\* record or change of the line forgets it.
Remember(c, p, added) ==
    before' = [cc \in Carts |-> [pp \in Products |->
        IF added /\ cc = c /\ pp = p
        THEN IF LinesOf(items[c], p) = <<>> THEN Known(inventory[p])
             ELSE IF before[c][p].known THEN [before[c][p] EXCEPT !.adds = @ + 1]
             ELSE Unknown
        ELSE IF inventory'[pp] # inventory[pp] \/ LinesOf(items'[cc], pp) # LinesOf(items[cc], pp)
        THEN Unknown
        ELSE before[cc][pp]]]

\* write the store state st of client c back
Commit(c, st) ==
    /\ inventory' = st.inv
    /\ items' = [items EXCEPT ![c] = st.items]
    /\ reservationTimeouts' = [reservationTimeouts EXCEPT ![c] = st.timers]

----------------------------------------------------------------------------
(* State *)

TypeOK ==
    /\ \A p \in Products :
          /\ inventory[p].current_stock \in Int
          /\ inventory[p].reserved_stock \in Nat
          /\ inventory[p].stock_status \in {"in_stock", "low_stock", "out_of_stock"}
    /\ catalog \in [Carts -> [Products -> Nat]]
    /\ now \in 0..MaxTime
    /\ nextReservation \in 1..(MaxReservations + 1)
    /\ \A c \in Carts :
          \A i \in 1..Len(items[c]) :
              /\ items[c][i].product \in Products
              /\ items[c][i].quantity \in Nat \ {0}
    /\ Len(orders) <= MaxOrders

Init ==
    /\ inventory = [p \in Products |-> SeededRecord(MaxStock, 0)]
    /\ catalog = [c \in Carts |-> [p \in Products |-> AvailableStock(inventory[p])]]
    /\ items = [c \in Carts |-> <<>>]
    /\ reservationTimeouts = [c \in Carts |-> {}]
    /\ nextReservation = 1
    /\ now = 0
    /\ orders = <<>>
    /\ price = [p \in Products |-> SamplePrice(p)]
    /\ calls = [c \in Carts |-> {}]
    /\ committed = {}
    /\ last = Env("init")
    /\ before = [c \in Carts |-> [p \in Products |-> Unknown]]
    /\ adding = [c \in Carts |-> {}]
    /\ user = NoUser
    /\ isAuthenticated = FALSE
    /\ saving = {}
    /\ userTable = NoUser

----------------------------------------------------------------------------
(* Cart actions *)

\* addItem: the availability check against the product object passed in
InsufficientForAdd(totalQuantity, availableStock) == totalQuantity > availableStock

\* addItem(product, quantity), product being the client's fetched snapshot of p
AddItem(c, p, quantity, ok) ==
    /\ nextReservation <= MaxReservations
    /\ LET existing        == FindProduct(items[c], p)
           currentQuantity == IF existing = 0 THEN 0 ELSE items[c][existing].quantity
           totalQuantity   == currentQuantity + quantity
           availableStock  == catalog[c][p]
           r               == reserveInventory(inventory, p, quantity, ok)
           reservationId   == nextReservation
           newItems ==
               IF existing # 0
               THEN [i \in 1..Len(items[c]) |->
                        IF items[c][i].product = p
                        THEN [items[c][i] EXCEPT !.quantity = totalQuantity,
                                                 !.reservationId = reservationId]
                        ELSE items[c][i]]
               ELSE Append(items[c], [product |-> p, quantity |-> quantity,
                                      reservationId |-> reservationId, addedAt |-> now,
                                      available_stock |-> availableStock])
       IN IF InsufficientForAdd(totalQuantity, availableStock) \/ ~r.granted
          THEN /\ last' = Op("addItem", c, p, quantity, "false")
               /\ UNCHANGED <<inventory, items, reservationTimeouts, nextReservation>>
          ELSE /\ inventory' = r.inv
               /\ items' = [items EXCEPT ![c] = newItems]
               /\ reservationTimeouts' =
                      [reservationTimeouts EXCEPT
                          ![c] = @ \cup {[id |-> reservationId, due |-> now + RESERVATION_TIMEOUT]}]
               /\ nextReservation' = nextReservation + 1
               /\ last' = Op("addItem", c, p, quantity, "true")
    /\ Remember(c, p, last'.ret = "true")
    /\ UNCHANGED <<price, session, calls, committed, catalog, now, orders>>

\* removeItem(productId)
RemoveItem(c, p, ok) ==
    /\ Commit(c, removeItem(Store(c), p, ok))
    /\ last' = Op("removeItem", c, p, 0, "void")
    /\ Remember(c, p, FALSE)
    /\ UNCHANGED <<price, session, calls, committed, catalog, nextReservation, now, orders>>

\* updateQuantity: the availability check against the line's own product snapshot
InsufficientForUpdate(quantity, item) == quantity > item.available_stock + item.quantity

\* updateQuantity(productId, quantity)
UpdateQuantity(c, p, quantity, okRelease, okReserve) ==
    /\ nextReservation <= MaxReservations
    /\ LET i == FindProduct(items[c], p) IN
       IF quantity <= 0
       THEN /\ Commit(c, removeItem(Store(c), p, okRelease))
            /\ last' = Op("updateQuantity", c, p, quantity, "true")
            /\ UNCHANGED nextReservation
       ELSE IF i = 0 \/ InsufficientForUpdate(quantity, items[c][i])
       THEN /\ last' = Op("updateQuantity", c, p, quantity, "false")
            /\ UNCHANGED <<inventory, items, reservationTimeouts, nextReservation>>
       ELSE LET item == items[c][i]
                st1  == IF item.reservationId # NoReservation
                        THEN releaseReservation(Store(c), item.reservationId, okRelease)
                        ELSE Store(c)
                r    == reserveInventory(st1.inv, p, quantity, okReserve)
                reservationId == nextReservation
            IN IF ~r.granted
               THEN /\ Commit(c, st1)
                    /\ last' = Op("updateQuantity", c, p, quantity, "false")
                    /\ UNCHANGED nextReservation
               ELSE /\ inventory' = r.inv
                    /\ items' = [items EXCEPT ![c] =
                           [j \in 1..Len(st1.items) |->
                               IF st1.items[j].product = p
                               THEN [st1.items[j] EXCEPT !.quantity = quantity,
                                                         !.reservationId = reservationId]
                               ELSE st1.items[j]]]
                    /\ reservationTimeouts' = [reservationTimeouts EXCEPT ![c] = st1.timers]
                    /\ nextReservation' = nextReservation + 1
                    /\ last' = Op("updateQuantity", c, p, quantity, "true")
    /\ Remember(c, p, FALSE)
    /\ UNCHANGED <<price, session, calls, committed, catalog, now, orders>>

\* clearCart()
ClearCart(c, ok) ==
    /\ Commit(c, clearCart(Store(c), ok))
    /\ last' = Op("clearCart", c, "A", 0, "void")
    /\ Remember(c, "A", FALSE)
    /\ UNCHANGED <<price, session, calls, committed, catalog, nextReservation, now, orders>>

\* refreshReservations()
RefreshReservations(c, ok) ==
    /\ Commit(c, RefreshAll(Store(c), items[c], now, ok))
    /\ last' = Op("refreshReservations", c, "A", 0, "void")
    /\ Remember(c, "A", FALSE)
    /\ UNCHANGED <<price, session, calls, committed, catalog, nextReservation, now, orders>>

\* the callback of setTimeout(() => releaseReservation(reservationId), RESERVATION_TIMEOUT)
TimerFires(c, t, ok) ==
    /\ t \in reservationTimeouts[c]
    /\ now >= t.due
    /\ LET st == releaseReservation(Store(c), t.id, ok)
       IN Commit(c, [st EXCEPT !.timers = st.timers \ {t}])
    /\ last' = Op("timer", c, "A", t.id,
                  IF FindReservation(items[c], t.id) = 0 THEN "noop"
                  ELSE IF ok THEN "released" ELSE "failed")
    /\ Remember(c, "A", FALSE)
    /\ UNCHANGED <<price, session, calls, committed, catalog, nextReservation, now, orders>>

\* page reload: the store is rebuilt from local storage, timers are gone,
\* the product list is fetched again
Reload(c) ==
    /\ items' = [items EXCEPT ![c] = Rehydrated(items[c])]
    /\ reservationTimeouts' = [reservationTimeouts EXCEPT ![c] = {}]
    /\ catalog' = [catalog EXCEPT ![c] = [p \in Products |-> AvailableStock(inventory[p])]]
    /\ last' = [Env("reload") EXCEPT !.cart = c]
    /\ UNCHANGED <<inventory, nextReservation, now, orders, price, session, calls, committed>>
    /\ Remember(c, "A", FALSE)

----------------------------------------------------------------------------
(* Checkout *)

CheckoutReservedOnly(rec, quantity) ==
    [rec EXCEPT !.reserved_stock = Max(0, rec.reserved_stock - quantity)]

\* handleCheckout: the record written for one line
CheckoutRecord(rec, quantity) ==
    [rec EXCEPT !.current_stock = rec.current_stock - quantity,
                !.reserved_stock = Max(0, rec.reserved_stock - quantity)]

\* handleCheckout: the inventory loop over the lines
RECURSIVE CheckoutLines(_, _)
CheckoutLines(inv, lines) ==
    IF lines = <<>> THEN inv
    ELSE CheckoutLines([inv EXCEPT ![Head(lines).product] =
                            CheckoutRecord(inv[Head(lines).product], Head(lines).quantity)],
                       Tail(lines))

\* handleCheckout: what follows the inventory loop
AfterCheckout(st) == clearCart(st, TRUE)

ShippingFreeFrom(subtotal) == IF subtotal >= 5000 THEN 0 ELSE 500

\* handleCheckout: shippingCost
ShippingCost(subtotal) == IF subtotal > 5000 THEN 0 ELSE 500

\* handleCheckout: taxAmount = Math.round(subtotal * 0.08); subtotal * 8 is never
\* 50 modulo 100, so no tie is rounded
TaxAmount(subtotal) == (subtotal * 8 + 50) \div 100

\* handleCheckout: the order record written to evn0gqq0jvuo
OrderRecord(c, lines) ==
    LET subtotal == getTotalPrice(lines) IN
    [cart |-> c, subtotal |-> subtotal,
     shipping_cost |-> ShippingCost(subtotal),
     tax_amount |-> TaxAmount(subtotal),
     total_amount |-> subtotal + ShippingCost(subtotal) + TaxAmount(subtotal)]

\* the reservation ids of the first n lines
TokensOf(lines, n) ==
    {lines[i].reservationId : i \in 1..n} \ {NoReservation}

CheckoutRefusedGuestOnly(authenticated, lines) == ~authenticated

\* handleCheckout: the two guards before anything is written
CheckoutRefused(authenticated, lines) == ~authenticated \/ Len(lines) = 0

\* CartDrawer.handleCheckout; ok = the order record is written, failLine = the
\* line whose inventory call throws (0 or beyond the cart: none).  A placed
\* order ends with navigate('/dashboard'): the shop page is left and fetches the
\* product list again when it is shown next.
Checkout(c, authenticated, ok, failLine) ==
    /\ Len(orders) < MaxOrders
    /\ IF CheckoutRefused(authenticated, items[c])
       THEN /\ last' = Op("checkout", c, "A", 0, "rejected")
            /\ UNCHANGED <<inventory, items, reservationTimeouts, orders, committed, catalog>>
       ELSE IF ~ok
       THEN /\ last' = Op("checkout", c, "A", 0, "failed")
            /\ UNCHANGED <<inventory, items, reservationTimeouts, orders, committed, catalog>>
       ELSE IF failLine \in 1..Len(items[c])
       THEN /\ orders' = Append(orders, OrderRecord(c, items[c]))
            /\ inventory' = CheckoutLines(inventory, SubSeq(items[c], 1, failLine - 1))
            /\ committed' = committed \cup TokensOf(items[c], failLine - 1)
            /\ last' = Op("checkout", c, "A", failLine, "aborted")
            /\ UNCHANGED <<items, reservationTimeouts, catalog>>
       ELSE /\ orders' = Append(orders, OrderRecord(c, items[c]))
            /\ Commit(c, AfterCheckout([Store(c) EXCEPT !.inv = CheckoutLines(inventory, items[c])]))
            /\ catalog' = [catalog EXCEPT
                   ![c] = [p \in Products |-> AvailableStock(inventory'[p])]]
            /\ last' = Op("checkout", c, "A", 0, "placed")
            /\ UNCHANGED committed
    /\ Remember(c, "A", FALSE)
    /\ UNCHANGED <<price, session, calls, nextReservation, now>>

----------------------------------------------------------------------------
(* releaseReservation step by step.  Every await of the handler is a point  *)
(* where other callbacks of the same tab run; a call in flight is a record  *)
(* [id, product, quantity, caller, pc, read, took] in calls.  took is       *)
(* history: by how much the call lowered reserved_stock.                    *)

\* releaseReservation up to its first await: the line is looked up and the
\* inventory record requested
NewCall(item, caller) ==
    [id |-> item.reservationId, product |-> item.product, quantity |-> item.quantity,
     caller |-> caller, pc |-> "read", read |-> 0, took |-> 0]

\* the calls of client c that have not finished
InFlight(c) == {r \in calls[c] : r.pc # "done"}

\* the expiry timer fires and its callback starts releaseReservation
StartTimerRelease(c, t) ==
    /\ t \in reservationTimeouts[c]
    /\ now >= t.due
    /\ reservationTimeouts' = [reservationTimeouts EXCEPT ![c] = @ \ {t}]
    /\ LET i == FindReservation(items[c], t.id) IN
       calls' = IF i = 0 THEN calls
                ELSE [calls EXCEPT ![c] = @ \cup {NewCall(items[c][i], "timer")}]
    /\ last' = Op("timerStart", c, "A", t.id, "void")
    /\ UNCHANGED <<inventory, catalog, items, nextReservation, now, orders, price, session,
                   committed, before>>

\* removeItem(productId) up to its first await
StartRemoveItem(c, p) ==
    /\ LET i == FindProduct(items[c], p) IN
       /\ i # 0
       /\ IF items[c][i].reservationId # NoReservation
          THEN /\ \A r \in calls[c] :
                     ~(r.id = items[c][i].reservationId /\ r.caller = "removeItem")
               /\ calls' = [calls EXCEPT ![c] = @ \cup {NewCall(items[c][i], "removeItem")}]
               /\ UNCHANGED items
          ELSE /\ items' = [items EXCEPT ![c] = DropProduct(@, p)]
               /\ UNCHANGED calls
    /\ last' = Op("removeItemStart", c, p, 0, "void")
    /\ UNCHANGED <<inventory, catalog, reservationTimeouts, nextReservation, now, orders,
                   price, session, committed, before>>

\* table.getItems answers: the call holds the record it read
ReleaseReads(c, r) ==
    /\ r \in calls[c]
    /\ r.pc = "read"
    /\ calls' = [calls EXCEPT ![c] =
           (@ \ {r}) \cup {[r EXCEPT !.pc = "write",
                                     !.read = inventory[r.product].reserved_stock]}]
    /\ last' = Op("releaseReads", c, r.product, r.id, "void")
    /\ UNCHANGED <<inventory, catalog, items, reservationTimeouts, nextReservation, now,
                   orders, price, session, committed, before>>

\* table.updateItem writes reserved_stock computed from the record read
ReleaseWrites(c, r) ==
    /\ r \in calls[c]
    /\ r.pc = "write"
    /\ LET newReservedStock ==
               ReservedAfterRelease([inventory[r.product] EXCEPT !.reserved_stock = r.read],
                                    r.quantity)
       IN /\ inventory' = [inventory EXCEPT ![r.product].reserved_stock = newReservedStock]
          /\ calls' = [calls EXCEPT ![c] =
                 (@ \ {r}) \cup
                 {[r EXCEPT !.pc = "finish",
                            !.took = Max(0, inventory[r.product].reserved_stock
                                            - newReservedStock)]}]
    /\ last' = Op("releaseWrites", c, r.product, r.id, "void")
    /\ UNCHANGED <<catalog, items, reservationTimeouts, nextReservation, now, orders,
                   price, session, committed>>
    /\ Remember(c, r.product, FALSE)

\* the rest of releaseReservation, and of removeItem when it was the caller
ReleaseFinishes(c, r) ==
    /\ r \in calls[c]
    /\ r.pc = "finish"
    /\ reservationTimeouts' = [reservationTimeouts EXCEPT ![c] = {t \in @ : t.id # r.id}]
    /\ items' = [items EXCEPT ![c] =
           IF r.caller = "removeItem"
           THEN DropProduct(DropReservation(@, r.id), r.product)
           ELSE DropReservation(@, r.id)]
    /\ calls' = [calls EXCEPT ![c] = (@ \ {r}) \cup {[r EXCEPT !.pc = "done"]}]
    /\ last' = Op("releaseFinishes", c, r.product, r.id, "void")
    /\ UNCHANGED <<inventory, catalog, nextReservation, now, orders, price, session, committed>>
    /\ Remember(c, r.product, FALSE)

----------------------------------------------------------------------------
(* addItem step by step.  A call holds what addItem computed before its     *)
(* await (existingItem, totalQuantity, the product object passed in), the   *)
(* reservation id reserveInventory made up, and the reserved_stock read.    *)

\* the addItem calls of client c that have not finished


\* addItem up to the first await of reserveInventory: the line is looked up,
\* the availability checked and the inventory record requested
StartAddItem(c, p, quantity) ==
    /\ nextReservation <= MaxReservations
    /\ LET existing        == FindProduct(items[c], p)
           currentQuantity == IF existing = 0 THEN 0 ELSE items[c][existing].quantity
           totalQuantity   == currentQuantity + quantity
           availableStock  == catalog[c][p]
       IN IF InsufficientForAdd(totalQuantity, availableStock)
          THEN /\ last' = Op("addItem", c, p, quantity, "false")
               /\ UNCHANGED <<adding, nextReservation>>
          ELSE /\ adding' = [adding EXCEPT ![c] = @ \cup
                      {[id |-> nextReservation, product |-> p, quantity |-> quantity,
                        existingItem |-> existing # 0, totalQuantity |-> totalQuantity,
                        available_stock |-> availableStock, pc |-> "read", read |-> 0]}]
               /\ nextReservation' = nextReservation + 1
               /\ last' = Op("addItemStart", c, p, quantity, "void")
    /\ UNCHANGED <<inventory, catalog, items, reservationTimeouts, now, orders, price,
                   calls, committed, before, user, isAuthenticated, saving, userTable>>

\* table.getItems answers: the call holds the record it read
AddItemReads(c, r) ==
    /\ r \in adding[c]
    /\ r.pc = "read"
    /\ adding' = [adding EXCEPT ![c] =
           (@ \ {r}) \cup {[r EXCEPT !.pc = "write",
                                     !.read = inventory[r.product].reserved_stock]}]
    /\ last' = Op("addItemReads", c, r.product, r.id, "void")
    /\ UNCHANGED <<inventory, catalog, items, reservationTimeouts, nextReservation, now,
                   orders, price, calls, committed, before, user, isAuthenticated,
                   saving, userTable>>

\* table.updateItem writes reserved_stock computed from the record read
AddItemWrites(c, r) ==
    /\ r \in adding[c]
    /\ r.pc = "write"
    /\ inventory' = [inventory EXCEPT ![r.product].reserved_stock =
           ReservedAfterReserve([inventory[r.product] EXCEPT !.reserved_stock = r.read],
                                r.quantity)]
    /\ adding' = [adding EXCEPT ![c] = (@ \ {r}) \cup {[r EXCEPT !.pc = "finish"]}]
    /\ last' = Op("addItemWrites", c, r.product, r.id, "void")
    /\ UNCHANGED <<catalog, items, reservationTimeouts, nextReservation, now, orders,
                   price, calls, committed, user, isAuthenticated, saving, userTable>>
    /\ Remember(c, r.product, FALSE)

\* a remote call of reserveInventory throws: it returns null and addItem false
AddItemFails(c, r) ==
    /\ r \in adding[c]
    /\ r.pc \in {"read", "write"}
    /\ adding' = [adding EXCEPT ![c] = @ \ {r}]
    /\ last' = Op("addItem", c, r.product, r.quantity, "false")
    /\ UNCHANGED <<inventory, catalog, items, reservationTimeouts, nextReservation, now,
                   orders, price, calls, committed, before, user, isAuthenticated,
                   saving, userTable>>

\* the rest of addItem: the line is merged or appended as existingItem says,
\* and the expiry timer set
AddItemFinishes(c, r) ==
    /\ r \in adding[c]
    /\ r.pc = "finish"
    /\ items' = [items EXCEPT ![c] =
           IF r.existingItem
           THEN [i \in 1..Len(@) |->
                    IF @[i].product = r.product
                    THEN [@[i] EXCEPT !.quantity = r.totalQuantity, !.reservationId = r.id]
                    ELSE @[i]]
           ELSE Append(@, [product |-> r.product, quantity |-> r.quantity,
                           reservationId |-> r.id, addedAt |-> now,
                           available_stock |-> r.available_stock])]
    /\ reservationTimeouts' = [reservationTimeouts EXCEPT
           ![c] = @ \cup {[id |-> r.id, due |-> now + RESERVATION_TIMEOUT]}]
    /\ adding' = [adding EXCEPT ![c] = @ \ {r}]
    /\ last' = Op("addItem", c, r.product, r.quantity, "true")
    /\ UNCHANGED <<inventory, catalog, nextReservation, now, orders, price, calls,
                   committed, user, isAuthenticated, saving, userTable>>
    /\ Remember(c, r.product, FALSE)

----------------------------------------------------------------------------
(* The auth store of client c1.  A user is [email, name, shipping_addresses] *)
(* and an address [id, is_default].  updateProfile is suspended on          *)
(* saveUserData: a call in flight is a record in saving.  The forms await   *)
(* their handler, so one profile call is in flight at a time; logout and    *)
(* login are other buttons and run meanwhile.                               *)

Email == "ann@example.com"
Names == {"", "Ann"}

\* the variables the auth actions leave alone
cart == <<inventory, catalog, items, reservationTimeouts, nextReservation, now, orders,
          price, calls, committed, before, adding>>

\* getUserData: the stored user, or the new user it creates and saves
getUserData(stored) ==
    IF stored # NoUser THEN stored
    ELSE [email |-> Email, name |-> "", shipping_addresses |-> <<>>]

\* verifyAndLogin(email, verificationCode); ok = no remote call throws
VerifyAndLogin(ok) ==
    /\ IF ok
       THEN /\ user' = getUserData(userTable)
            /\ userTable' = getUserData(userTable)
            /\ isAuthenticated' = TRUE
       ELSE /\ user' = NoUser
            /\ isAuthenticated' = FALSE
            /\ UNCHANGED userTable
    /\ last' = [Env("verifyAndLogin") EXCEPT !.ret = IF ok THEN "void" ELSE "threw"]
    /\ UNCHANGED <<cart, saving>>

\* logout(): the finally block runs whether auth.logout() throws or not
Logout ==
    /\ user' = NoUser
    /\ isAuthenticated' = FALSE
    /\ last' = Env("logout")
    /\ UNCHANGED <<cart, saving, userTable>>

\* a handler that found no user throws before it changes anything
NoAuthenticatedUser(name) ==
    /\ user = NoUser
    /\ last' = [Env(name) EXCEPT !.ret = "threw"]
    /\ UNCHANGED <<cart, user, isAuthenticated, saving, userTable>>

\* updateProfile(updates) up to its await of saveUserData
Suspend(updatedUser, caller, address, first, is_default) ==
    saving' = saving \cup {[updatedUser |-> updatedUser, caller |-> caller,
                            address |-> address, first |-> first,
                            is_default |-> is_default]}

\* updateProfile({name}) called by the profile form
StartUpdateProfile(name) ==
    \/ NoAuthenticatedUser("updateProfile")
    \/ /\ user # NoUser
       /\ saving = {}
       /\ Suspend([user EXCEPT !.name = name], "updateProfile", 0, FALSE, FALSE)
       /\ last' = Env("updateProfileStart")
       /\ UNCHANGED <<cart, user, isAuthenticated, userTable>>

\* the id of a new address: unused among the user's addresses
FreshAddressId(addresses) ==
    LET used == {addresses[i].id : i \in 1..Len(addresses)}
    IN CHOOSE n \in 1..(Len(addresses) + 1) :
           n \notin used /\ \A m \in 1..(n - 1) : m \in used

\* addr.is_default = false for every address but the one with id keep
ClearDefaults(addresses, keep) ==
    [i \in 1..Len(addresses) |->
        IF addresses[i].id = keep THEN addresses[i]
        ELSE [addresses[i] EXCEPT !.is_default = FALSE]]

\* addShippingAddress(address) up to the await in updateProfile; the forEach
\* changes the address objects of the state in place
StartAddShippingAddress(is_default) ==
    \/ NoAuthenticatedUser("addShippingAddress")
    \/ /\ user # NoUser
       /\ saving = {}
       /\ Len(user.shipping_addresses) < MaxAddresses
       /\ LET first      == Len(user.shipping_addresses) = 0
              newAddress == [id |-> FreshAddressId(user.shipping_addresses),
                             is_default |-> is_default]
              addresses  == IF first \/ is_default
                            THEN ClearDefaults(user.shipping_addresses, 0)
                            ELSE user.shipping_addresses
          IN /\ user' = [user EXCEPT !.shipping_addresses = addresses]
             /\ Suspend([user EXCEPT !.shipping_addresses = Append(addresses, newAddress)],
                        "addShippingAddress", newAddress.id, first, is_default)
       /\ last' = Env("addShippingAddressStart")
       /\ UNCHANGED <<cart, isAuthenticated, userTable>>

\* updateShippingAddress(id, {is_default}) up to the await in updateProfile;
\* setDefaultAddress(id) is the call with is_default true.  The address id is
\* copied, the others are the objects of the state and are changed in place.
StartUpdateShippingAddress(id, is_default) ==
    \/ NoAuthenticatedUser("updateShippingAddress")
    \/ /\ user # NoUser
       /\ saving = {}
       /\ \E i \in 1..Len(user.shipping_addresses) : user.shipping_addresses[i].id = id
       /\ LET addresses == IF is_default THEN ClearDefaults(user.shipping_addresses, id)
                           ELSE user.shipping_addresses
              updatedAddresses ==
                  [i \in 1..Len(addresses) |->
                      IF addresses[i].id = id
                      THEN [addresses[i] EXCEPT !.is_default = is_default]
                      ELSE addresses[i]]
          IN /\ user' = [user EXCEPT !.shipping_addresses = addresses]
             /\ Suspend([user EXCEPT !.shipping_addresses = updatedAddresses],
                        "updateShippingAddress", id, FALSE, is_default)
       /\ last' = Env("updateShippingAddressStart")
       /\ UNCHANGED <<cart, isAuthenticated, userTable>>

\* removeShippingAddress(id) up to the await in updateProfile; the first of the
\* remaining addresses is an object of the state and is changed in place
StartRemoveShippingAddress(id) ==
    \/ NoAuthenticatedUser("removeShippingAddress")
    \/ /\ user # NoUser
       /\ saving = {}
       /\ \E i \in 1..Len(user.shipping_addresses) : user.shipping_addresses[i].id = id
       /\ LET old       == user.shipping_addresses
              removed   == CHOOSE i \in 1..Len(old) : old[i].id = id
              remaining == SelectSeq(old, LAMBDA a : a.id # id)
              promoted  == IF old[removed].is_default /\ Len(remaining) > 0
                           THEN Head(remaining).id ELSE 0
              Promote(addresses) ==
                  [i \in 1..Len(addresses) |->
                      IF addresses[i].id = promoted
                      THEN [addresses[i] EXCEPT !.is_default = TRUE]
                      ELSE addresses[i]]
          IN /\ user' = [user EXCEPT !.shipping_addresses = Promote(old)]
             /\ Suspend([user EXCEPT !.shipping_addresses = Promote(remaining)],
                        "removeShippingAddress", id, FALSE, FALSE)
       /\ last' = Env("removeShippingAddressStart")
       /\ UNCHANGED <<cart, isAuthenticated, userTable>>

\* saveUserData answers and updateProfile goes on: set({ user: updatedUser })
ProfileSaved(r) ==
    /\ r \in saving
    /\ saving' = saving \ {r}
    /\ userTable' = r.updatedUser
    /\ user' = r.updatedUser
    /\ last' = [Env("profileSaved") EXCEPT !.quantity = r.address]
    /\ UNCHANGED <<cart, isAuthenticated>>

\* saveUserData throws: updateProfile sets the error and throws
ProfileSaveFails(r) ==
    /\ r \in saving
    /\ saving' = saving \ {r}
    /\ last' = [Env("profileSaved") EXCEPT !.quantity = r.address, !.ret = "threw"]
    /\ UNCHANGED <<cart, user, isAuthenticated, userTable>>

----------------------------------------------------------------------------
(* Administration and time *)

\* useInventoryManagement.updateStock(productId, newStock)
UpdateStock(p, newStock) ==
    /\ inventory[p].current_stock # newStock
    /\ inventory' = [inventory EXCEPT
           ![p].current_stock = newStock,
           ![p].stock_status = StockStatus(newStock, inventory[p].reorder_level)]
    /\ last' = [Env("updateStock") EXCEPT !.product = p, !.quantity = newStock]
    /\ UNCHANGED <<price, session, calls, committed, catalog, items, reservationTimeouts, nextReservation, now, orders>>
    /\ Remember("c1", p, FALSE)

\* NotificationCenter.recordMovement: restock and adjustment both add quantityNum
RecordMovement(p, quantityNum) ==
    /\ inventory[p].current_stock + quantityNum <= MaxStock
    /\ inventory' = [inventory EXCEPT
           ![p].current_stock = Max(0, inventory[p].current_stock + quantityNum)]
    /\ last' = [Env("recordMovement") EXCEPT !.product = p, !.quantity = quantityNum]
    /\ UNCHANGED <<price, session, calls, committed, catalog, items, reservationTimeouts, nextReservation, now, orders>>
    /\ Remember("c1", p, FALSE)

InsufficientOrEqual(available, quantity) == available <= quantity

\* reserveStock: the availability check on the record just read
InsufficientStock(available, quantity) == available < quantity

\* useInventoryManagement.reserveStock(productId, quantity)
ReserveStock(p, quantity) ==
    /\ LET inventoryItem == inventory[p]
           available     == Max(0, inventoryItem.current_stock - inventoryItem.reserved_stock)
       IN IF InsufficientStock(available, quantity)
          THEN /\ last' = [Env("reserveStock") EXCEPT !.product = p, !.quantity = quantity,
                                                      !.ret = "threw"]
               /\ UNCHANGED inventory
          ELSE /\ inventory' = [inventory EXCEPT
                      ![p].reserved_stock = inventoryItem.reserved_stock + quantity]
               /\ last' = [Env("reserveStock") EXCEPT !.product = p, !.quantity = quantity,
                                                      !.ret = "true"]
    /\ UNCHANGED <<price, session, calls, committed, catalog, items, reservationTimeouts, nextReservation, now, orders>>
    /\ Remember("c1", p, FALSE)

\* useInventoryManagement.releaseReservedStock(productId, quantity)
ReleaseReservedStock(p, quantity) ==
    /\ inventory' = [inventory EXCEPT
           ![p].reserved_stock = Max(0, inventory[p].reserved_stock - quantity)]
    /\ last' = [Env("releaseReservedStock") EXCEPT !.product = p, !.quantity = quantity,
                                                   !.ret = "true"]
    /\ UNCHANGED <<price, session, calls, committed, catalog, items, reservationTimeouts, nextReservation, now, orders>>
    /\ Remember("c1", p, FALSE)

\* time passes
Advance(d) ==
    /\ now + d <= MaxTime
    /\ now' = now + d
    /\ last' = Env("advance")
    /\ UNCHANGED <<inventory, catalog, items, reservationTimeouts, nextReservation, orders,
                 price, session, calls, committed, before>>

----------------------------------------------------------------------------
(* Specifications *)

\* the operations of one client; every remote call succeeds
Client(c) ==
    \/ \E p \in Products, q \in 1..MaxQty : AddItem(c, p, q, TRUE)
    \/ \E p \in Products : RemoveItem(c, p, TRUE)
    \/ \E p \in Products, q \in 0..MaxQty : UpdateQuantity(c, p, q, TRUE, TRUE)
    \/ ClearCart(c, TRUE)
    \/ RefreshReservations(c, TRUE)
    \/ \E t \in reservationTimeouts[c] : TimerFires(c, t, TRUE)
    \/ Reload(c)
    \/ \E a \in BOOLEAN : Checkout(c, a, TRUE, 0)

\* another client holding and releasing units of product A
OtherClient(c) ==
    \/ \E q \in 1..MaxQty : AddItem(c, "A", q, TRUE)
    \/ RemoveItem(c, "A", TRUE)

Next ==
    \/ Client("c1")
    \/ OtherClient("c2")
    \/ Advance(1)

Spec == Init /\ [][Next]_vars

\* the operations of one client when any remote call may fail
FaultyClient(c) ==
    \/ \E p \in Products, q \in 1..MaxQty, ok \in BOOLEAN : AddItem(c, p, q, ok)
    \/ \E p \in Products, ok \in BOOLEAN : RemoveItem(c, p, ok)
    \/ \E p \in Products, q \in 0..MaxQty, ok1 \in BOOLEAN, ok2 \in BOOLEAN :
           UpdateQuantity(c, p, q, ok1, ok2)
    \/ \E ok \in BOOLEAN : ClearCart(c, ok)
    \/ \E ok \in BOOLEAN : RefreshReservations(c, ok)
    \/ \E t \in reservationTimeouts[c], ok \in BOOLEAN : TimerFires(c, t, ok)
    \/ Reload(c)
    \/ \E a \in BOOLEAN, ok \in BOOLEAN, failLine \in 0..Cardinality(Products) :
           Checkout(c, a, ok, failLine)

NextFaulty ==
    \/ FaultyClient("c1")
    \/ OtherClient("c2")
    \/ Advance(1)

SpecFaulty == Init /\ [][NextFaulty]_vars

\* one client alone filling its cart; the remote calls of any release may fail
NextRelease ==
    \/ \E p \in Products, q \in 1..MaxQty : AddItem("c1", p, q, TRUE)
    \/ \E p \in Products, ok \in BOOLEAN : RemoveItem("c1", p, ok)
    \/ \E ok \in BOOLEAN : ClearCart("c1", ok)
    \/ \E ok \in BOOLEAN : RefreshReservations("c1", ok)
    \/ \E t \in reservationTimeouts["c1"], ok \in BOOLEAN : TimerFires("c1", t, ok)
    \/ Advance(1)

SpecRelease == Init /\ [][NextRelease]_vars

\* one client alone; its reservation request may fail
NextSolo ==
    \/ Client("c1")
    \/ \E p \in Products, q \in 1..MaxQty : AddItem("c1", p, q, FALSE)
    \/ Advance(1)

SpecSolo == Init /\ [][NextSolo]_vars

\* one client filling its cart and checking out, any remote call of the
\* checkout failing; another client holds units of product A
NextCheckout ==
    \/ \E p \in Products, q \in 1..MaxQty : AddItem("c1", p, q, TRUE)
    \/ \E p \in Products : RemoveItem("c1", p, TRUE)
    \/ \E t \in reservationTimeouts["c1"] : TimerFires("c1", t, TRUE)
    \/ \E a \in BOOLEAN, ok \in BOOLEAN, failLine \in 0..Cardinality(Products) :
           Checkout("c1", a, ok, failLine)
    \/ OtherClient("c2")
    \/ Advance(1)

SpecCheckout == Init /\ [][NextCheckout]_vars

\* one client alone filling its cart and checking out, any remote call of the
\* checkout failing
NextCheckoutSolo ==
    \/ \E p \in Products, q \in 1..MaxQty : AddItem("c1", p, q, TRUE)
    \/ \E p \in Products : RemoveItem("c1", p, TRUE)
    \/ \E a \in BOOLEAN, ok \in BOOLEAN, failLine \in 0..Cardinality(Products) :
           Checkout("c1", a, ok, failLine)

SpecCheckoutSolo == Init /\ [][NextCheckoutSolo]_vars

\* two clients filling their carts from the product lists they fetched and
\* checking out
NextShoppers ==
    \/ \E c \in Carts, p \in Products, q \in 1..MaxQty : AddItem(c, p, q, TRUE)
    \/ \E c \in Carts : Checkout(c, TRUE, TRUE, 0)

SpecShoppers == Init /\ [][NextShoppers]_vars

\* the administrator setting stock levels and recording movements while one
\* client shops
NextAdmin ==
    \/ \E p \in Products, newStock \in 0..MaxStock : UpdateStock(p, newStock)
    \/ \E p \in Products, quantityNum \in {-1, 1} : RecordMovement(p, quantityNum)
    \/ \E p \in Products, q \in 1..MaxQty : AddItem("c1", p, q, TRUE)
    \/ Checkout("c1", TRUE, TRUE, 0)

SpecAdmin == Init /\ [][NextAdmin]_vars

\* the inventory hook called on product A, whose seeded record holds any
\* stock up to MaxHookStock and at most one unit reserved
InitHook ==
    /\ \E baseStock \in 0..MaxHookStock, reservedStock \in 0..1 :
          inventory = [p \in Products |->
              IF p = "A" THEN SeededRecord(baseStock, reservedStock)
              ELSE SeededRecord(MaxStock, 0)]
    /\ catalog = [c \in Carts |-> [p \in Products |-> AvailableStock(inventory[p])]]
    /\ items = [c \in Carts |-> <<>>]
    /\ reservationTimeouts = [c \in Carts |-> {}]
    /\ nextReservation = 1
    /\ now = 0
    /\ orders = <<>>
    /\ price = [p \in Products |-> SamplePrice(p)]
    /\ calls = [c \in Carts |-> {}]
    /\ committed = {}
    /\ last = Env("init")
    /\ before = [c \in Carts |-> [p \in Products |-> Unknown]]
    /\ adding = [c \in Carts |-> {}]
    /\ user = NoUser
    /\ isAuthenticated = FALSE
    /\ saving = {}
    /\ userTable = NoUser

NextHook ==
    \/ \E quantity \in 1..MaxHookStock : ReserveStock("A", quantity)
    \/ \E quantity \in 1..MaxHookStock : ReleaseReservedStock("A", quantity)

SpecHook == InitHook /\ [][NextHook]_vars

\* two clients whose addItem calls run step by step, and may overlap
NextAsyncAdd ==
    \/ \E c \in Carts, p \in Products, q \in 1..MaxQty : StartAddItem(c, p, q)
    \/ \E c \in Carts : \E r \in adding[c] : AddItemReads(c, r)
    \/ \E c \in Carts : \E r \in adding[c] : AddItemWrites(c, r)
    \/ \E c \in Carts : \E r \in adding[c] : AddItemFails(c, r)
    \/ \E c \in Carts : \E r \in adding[c] : AddItemFinishes(c, r)
    \/ \E c \in Carts, p \in Products : RemoveItem(c, p, TRUE)

SpecAsyncAdd == Init /\ [][NextAsyncAdd]_vars

\* the auth store alone
NextAuth ==
    \/ \E ok \in BOOLEAN : VerifyAndLogin(ok)
    \/ Logout
    \/ \E name \in Names : StartUpdateProfile(name)
    \/ \E is_default \in BOOLEAN : StartAddShippingAddress(is_default)
    \/ \E id \in 1..MaxAddresses, is_default \in BOOLEAN :
           StartUpdateShippingAddress(id, is_default)
    \/ \E id \in 1..MaxAddresses : StartRemoveShippingAddress(id)
    \/ \E r \in saving : ProfileSaved(r)
    \/ \E r \in saving : ProfileSaveFails(r)

SpecAuth == Init /\ [][NextAuth]_vars

\* one client signing in and out, filling its cart and checking out; the
\* cart drawer reads isAuthenticated from the auth store
NextSession ==
    \/ \E ok \in BOOLEAN : VerifyAndLogin(ok)
    \/ Logout
    \/ \E p \in Products, q \in 1..MaxQty : AddItem("c1", p, q, TRUE)
    \/ \E ok \in BOOLEAN, failLine \in 0..Cardinality(Products) :
           Checkout("c1", isAuthenticated, ok, failLine)

SpecSession == Init /\ [][NextSession]_vars

\* one client alone changing quantities; the release and the new reservation
\* of updateQuantity may fail
NextUpdate ==
    \/ \E p \in Products, q \in 1..MaxQty : AddItem("c1", p, q, TRUE)
    \/ \E p \in Products, q \in 0..MaxQty, okRelease \in BOOLEAN, okReserve \in BOOLEAN :
           UpdateQuantity("c1", p, q, okRelease, okReserve)
    \/ Reload("c1")

SpecUpdate == Init /\ [][NextUpdate]_vars

\* unit prices the products table may hold, in cents
Prices == {1000, 1500, 2500, 1505, 1899}

\* the store after construction, for any prices of the two products
InitTotals ==
    /\ inventory = [p \in Products |-> SeededRecord(MaxStock, 0)]
    /\ catalog = [c \in Carts |-> [p \in Products |-> AvailableStock(inventory[p])]]
    /\ items = [c \in Carts |-> <<>>]
    /\ reservationTimeouts = [c \in Carts |-> {}]
    /\ nextReservation = 1
    /\ now = 0
    /\ orders = <<>>
    /\ price \in [Products -> Prices]
    /\ calls = [c \in Carts |-> {}]
    /\ committed = {}
    /\ last = Env("init")
    /\ before = [c \in Carts |-> [p \in Products |-> Unknown]]
    /\ adding = [c \in Carts |-> {}]
    /\ user = NoUser
    /\ isAuthenticated = FALSE
    /\ saving = {}
    /\ userTable = NoUser

\* one client filling its cart and checking out
NextTotals ==
    \/ \E p \in Products, q \in 1..MaxQty : AddItem("c1", p, q, TRUE)
    \/ Checkout("c1", TRUE, TRUE, 0)

SpecTotals == InitTotals /\ [][NextTotals]_vars

\* one client whose releases run step by step, started by the expiry timers
\* and by the remove button; another client holds units of product A.  Units
\* are reserved only while no release is in flight, so that every change of
\* reserved_stock during a release is the work of a release.
NextAsync ==
    \/ InFlight("c1") = {} /\ \E q \in 1..MaxQty : AddItem("c1", "A", q, TRUE)
    \/ InFlight("c1") = {} /\ OtherClient("c2")
    \/ \E t \in reservationTimeouts["c1"] : StartTimerRelease("c1", t)
    \/ StartRemoveItem("c1", "A")
    \/ \E r \in calls["c1"] : ReleaseReads("c1", r)
    \/ \E r \in calls["c1"] : ReleaseWrites("c1", r)
    \/ \E r \in calls["c1"] : ReleaseFinishes("c1", r)
    \/ Advance(1)

SpecAsync == Init /\ [][NextAsync]_vars

----------------------------------------------------------------------------
(* Properties *)

Reserved(p) == inventory[p].reserved_stock
Current(p) == inventory[p].current_stock

\* the units of product p in a cart
RECURSIVE QuantityOf(_, _)
QuantityOf(lines, p) ==
    IF lines = <<>> THEN 0
    ELSE (IF Head(lines).product = p THEN Head(lines).quantity ELSE 0)
         + QuantityOf(Tail(lines), p)

\* C1: a successful checkout lowers current_stock and reserved_stock of every
\* purchased product by exactly the line's quantity, once, and empties the cart;
\* units other carts hold stay counted in reserved_stock.
C1_CheckoutConvertsHoldOnce ==
    [][(last'.op = "checkout" /\ last'.ret = "placed") =>
          LET c == last'.cart IN
          /\ items'[c] = <<>>
          /\ \A p \in Products :
                /\ inventory'[p].current_stock = Current(p) - QuantityOf(items[c], p)
                /\ inventory'[p].reserved_stock = Reserved(p) - QuantityOf(items[c], p)]_vars

\* C2: addItem for more units than current_stock - reserved_stock of the remote
\* record returns false and leaves reserved_stock unchanged.
C2_OverAvailableAddFails ==
    [][(last'.op = "addItem"
          /\ last'.quantity > Current(last'.product) - Reserved(last'.product)) =>
          /\ last'.ret = "false"
          /\ inventory'[last'.product].reserved_stock = Reserved(last'.product)]_vars

\* C3: reserved_stock <= current_stock for every product in every reachable state.
C3_ReservedWithinCurrent ==
    \A p \in Products : Reserved(p) <= Current(p)

\* no client has a cart line or a pending expiry timer
Quiescent ==
    \A c \in Carts : items[c] = <<>> /\ reservationTimeouts[c] = {}

\* C4: every hold is released in the end: once no cart has a line and no timer
\* is pending, no reserved unit is left (the inventory starts with none).
C4_NoHoldOutlivesItsCart ==
    Quiescent => \A p \in Products : Reserved(p) = 0

\* C5: refreshReservations releases every line whose reservation is more than
\* 15 minutes old: the line leaves the cart and its quantity leaves
\* reserved_stock, also for a cart restored from local storage.
C5_RefreshReleasesExpired ==
    [][last'.op = "refreshReservations" =>
          LET c == last'.cart IN
          \A i \in 1..Len(items[c]) :
              now - items[c][i].addedAt > RESERVATION_TIMEOUT =>
                  /\ LinesOf(items'[c], items[c][i].product) = <<>>
                  /\ inventory'[items[c][i].product].reserved_stock =
                         Reserved(items[c][i].product) - items[c][i].quantity]_vars

\* C6: updateQuantity(p, q2) on a line of quantity q1, with
\* 0 < q2 <= available_stock + q1 (for the line's snapshot and for the remote
\* record alike), returns true and changes reserved_stock by exactly q2 - q1.
C6_UpdateChangesReservedByDifference ==
    [][(last'.op = "updateQuantity" /\ last'.quantity > 0
          /\ LinesOf(items[last'.cart], last'.product) # <<>>) =>
          LET p    == last'.product
              q2   == last'.quantity
              line == LinesOf(items[last'.cart], p)[1]
          IN (q2 <= AvailableStock(inventory[p]) + line.quantity
                /\ q2 <= line.available_stock + line.quantity) =>
                 /\ last'.ret = "true"
                 /\ inventory'[p].reserved_stock = Reserved(p) + q2 - line.quantity]_vars

\* C7: after updateQuantity(p, q) with q > 0 returns true the cart has exactly
\* one line for p, with quantity q and a reservation id.
C7_UpdateKeepsTheLine ==
    [][(last'.op = "updateQuantity" /\ last'.quantity > 0 /\ last'.ret = "true") =>
          LET ls == LinesOf(items'[last'.cart], last'.product) IN
          /\ Len(ls) = 1
          /\ ls[1].quantity = last'.quantity
          /\ ls[1].reservationId # NoReservation]_vars

\* a step in which client c releases its line for product p
ReleasesLine(c, p) ==
    /\ last'.cart = c
    /\ \/ last'.op \in {"timer", "refreshReservations", "clearCart"}
       \/ last'.op = "removeItem" /\ last'.product = p
       \/ last'.op = "updateQuantity" /\ last'.product = p /\ last'.quantity <= 0
    /\ LinesOf(items[c], p) # <<>>
    /\ LinesOf(items'[c], p) = <<>>

\* C8: inverse law.  When a client built a line by one or more addItem calls and
\* nothing else wrote the product's record since, releasing the line puts
\* current_stock and reserved_stock back to their values before the first addItem.
C8_ReleaseUndoesAddItem ==
    [][\A c \in Carts, p \in Products :
          (before[c][p].known /\ ReleasesLine(c, p)) =>
              /\ inventory'[p].current_stock = before[c][p].current_stock
              /\ inventory'[p].reserved_stock = before[c][p].reserved_stock]_vars

\* a line built by two addItem calls has just been removed
C8_Witness ==
    /\ last.op = "removeItem"
    /\ last.was.known
    /\ last.was.adds >= 2
    /\ LinesOf(items[last.cart], last.product) = <<>>

\* C9: a successful addItem raises reserved_stock by exactly its quantity and
\* leaves one line for the product holding the previous quantity plus the new one;
\* a failed addItem returns false and changes neither the cart nor reserved_stock.
C9_AddItemEffect ==
    [][last'.op = "addItem" =>
          LET c == last'.cart
              p == last'.product
              q == last'.quantity
          IN /\ last'.ret \in {"true", "false"}
             /\ last'.ret = "true" =>
                   /\ inventory'[p].reserved_stock = Reserved(p) + q
                   /\ Len(LinesOf(items'[c], p)) = 1
                   /\ LinesOf(items'[c], p)[1].quantity = QuantityOf(items[c], p) + q
                   /\ \A pp \in Products \ {p} : LinesOf(items'[c], pp) = LinesOf(items[c], pp)
             /\ last'.ret = "false" =>
                   /\ items' = items
                   /\ \A pp \in Products : inventory'[pp].reserved_stock = Reserved(pp)]_vars

\* a successful addItem was merged into an existing line
C9_Witness ==
    /\ last.op = "addItem"
    /\ last.ret = "true"
    /\ QuantityOf(items[last.cart], last.product) > last.quantity
    /\ Reserved(last.product) >= QuantityOf(items[last.cart], last.product)

\* the lines client c drops in a removeItem, updateQuantity(q <= 0) or clearCart step
Drops(c, p) ==
    /\ last'.cart = c
    /\ \/ last'.op = "clearCart"
       \/ last'.op = "removeItem" /\ last'.product = p
       \/ last'.op = "updateQuantity" /\ last'.product = p /\ last'.quantity <= 0
    /\ LinesOf(items[c], p) # <<>>

\* C10: removeItem, updateQuantity(q <= 0) and clearCart subtract the quantity of
\* every line they drop from reserved_stock (floored at 0) and leave no such line,
\* also for lines restored from local storage.
C10_DroppedLinesAreReleased ==
    [][\A c \in Carts, p \in Products :
          Drops(c, p) =>
              /\ LinesOf(items'[c], p) = <<>>
              /\ inventory'[p].reserved_stock = Max(0, Reserved(p) - QuantityOf(items[c], p))]_vars

\* the units of product p in the lines no checkout attempt has deducted yet
RECURSIVE Undeducted(_, _)
Undeducted(lines, p) ==
    IF lines = <<>> THEN 0
    ELSE (IF Head(lines).product = p /\ Head(lines).reservationId \notin committed
          THEN Head(lines).quantity ELSE 0)
         + Undeducted(Tail(lines), p)

\* C11: checkout commits a cart exactly once.  When an attempt was aborted in
\* its inventory loop and the customer retries at once, the two attempts
\* together leave one order record, and the retry deducts from current_stock
\* only the lines the first attempt had not deducted.
C11_CheckoutCommitsOnce ==
    [][(last.op = "checkout" /\ last.ret = "aborted"
          /\ last'.op = "checkout" /\ last'.cart = last.cart /\ last'.ret = "placed") =>
          /\ orders' = orders
          /\ \A p \in Products :
                inventory'[p].current_stock = Current(p) - Undeducted(items[last.cart], p)]_vars

\* C12: within one client no two cart mutations interleave: while one is
\* suspended on a remote call no other mutation of the same cart has started.
C12_MutationsAreSerialized ==
    \A c \in Carts : Cardinality(InFlight(c)) <= 1

\* C18: release lowers reserved_stock by the line's quantity at most once for
\* each reservation id, also when two releases of the same id overlap.
C18_OverlappingReleasesSubtractOnce ==
    \A c \in Carts : \A r1 \in calls[c], r2 \in calls[c] :
        (r1.id = r2.id /\ r1 # r2) => r1.took + r2.took <= r1.quantity

\* the reservation id of the line of product p in the cart of c, or NoReservation
TokenOfLine(c, p) ==
    IF FindProduct(items[c], p) = 0 THEN NoReservation
    ELSE items[c][FindProduct(items[c], p)].reservationId

\* C13: Released and Committed are terminal for a reservation id.  Once the
\* checkout loop has deducted a line, nothing changes the inventory on behalf of
\* its id any more: not the clearCart that ends the checkout, not a later expiry
\* timer or removeItem; and a timer that fires for an id no line carries
\* changes nothing.
C13_CommittedAndReleasedAreTerminal ==
    [][/\ (last'.op = "checkout" /\ last'.ret = "placed") =>
             inventory' = CheckoutLines(inventory, items[last'.cart])
       /\ (last'.op = "timer" /\ last'.quantity \in committed) =>
             inventory' = inventory
       /\ (last'.op = "removeItem"
             /\ TokenOfLine(last'.cart, last'.product) \in committed) =>
             inventory' = inventory
       /\ (last'.op = "timer" /\ last'.ret = "noop") =>
             inventory' = inventory /\ items' = items]_vars

\* C14: every reservation id carried by a cart line, whether issued by addItem
\* or by updateQuantity, has exactly one pending expiry timer, due no later than
\* 15 minutes from now.
C14_EveryTokenHasItsTimer ==
    \A c \in Carts : \A i \in 1..Len(items[c]) :
        items[c][i].reservationId # NoReservation =>
            /\ Cardinality({t \in reservationTimeouts[c] :
                               t.id = items[c][i].reservationId}) = 1
            /\ \A t \in reservationTimeouts[c] :
                   t.id = items[c][i].reservationId => t.due <= now + RESERVATION_TIMEOUT

\* releasing reservation id rid in the store of client c, once and twice
ReleasedOnce(c, rid) == releaseReservation(Store(c), rid, TRUE)
ReleasedTwice(c, rid) == releaseReservation(ReleasedOnce(c, rid), rid, TRUE)

\* C15: releaseReservation for an id no cart line carries writes nothing and
\* changes no cart state, so a second release of an id right after the first
\* changes nothing; an expiry timer that fires for such an id is a no-op.
C15_ReleaseOfUnknownTokenIsNoOp ==
    [][/\ \A c \in Carts : \A rid \in 1..MaxReservations :
             /\ FindReservation(items[c], rid) = 0 => ReleasedOnce(c, rid) = Store(c)
             /\ ReleasedTwice(c, rid) = ReleasedOnce(c, rid)
       /\ (last'.op = "timer" /\ last'.ret = "noop") =>
             /\ inventory' = inventory
             /\ items' = items]_vars

\* the timer of a replaced reservation id has fired while the line, merged under
\* a newer id, is still held
C15_Witness ==
    /\ last.op = "timer"
    /\ last.ret = "noop"
    /\ \E i \in 1..Len(items[last.cart]) :
          /\ items[last.cart][i].reservationId > last.quantity
          /\ items[last.cart][i].quantity >= 2
          /\ Reserved(items[last.cart][i].product) >= items[last.cart][i].quantity

\* C16: the available_stock attached to a product, in the product list of a
\* client and in its cart lines, equals max(0, current_stock - reserved_stock)
\* of the product's inventory record after any sequence of reserves and releases.
C16_AvailableStockIsCurrent ==
    \A c \in Carts :
        /\ \A p \in Products : catalog[c][p] = AvailableStock(inventory[p])
        /\ \A i \in 1..Len(items[c]) :
               items[c][i].available_stock = AvailableStock(inventory[items[c][i].product])

\* C17: the order written by checkout has subtotal = the sum over the cart of
\* unit price times quantity, in cents; shipping 0 when subtotal > 5000 and 500
\* otherwise, so exactly 5000 pays shipping; tax = 8% of subtotal rounded to the
\* nearest cent; total = subtotal + shipping + tax.
C17_OrderTotals ==
    [][Len(orders') > Len(orders) =>
          LET order == orders'[Len(orders')]
              lines == items[order.cart]
              sum   == price["A"] * QuantityOf(lines, "A") + price["B"] * QuantityOf(lines, "B")
          IN /\ order.subtotal = sum
             /\ order.shipping_cost = (IF sum > 5000 THEN 0 ELSE 500)
             /\ 100 * order.tax_amount - 8 * sum \in -49..50
             /\ order.total_amount = sum + order.shipping_cost + order.tax_amount]_vars

\* an order of exactly 5000 cents was written, and it pays shipping
C17_Witness ==
    \E i \in 1..Len(orders) :
        /\ orders[i].subtotal = 5000
        /\ orders[i].shipping_cost = 500
        /\ orders[i].total_amount = 5900

\* the cart (A, qty 2, price 1000), (B, qty 1, price 1500) was ordered: 3500 cents
C17_Example ==
    \E i \in 1..Len(orders) :
        /\ price["A"] = 1000 /\ price["B"] = 1500
        /\ orders[i].subtotal = 3500
        /\ orders[i].tax_amount = 280

\* C19, as claimed: when the inventory update of one line fails during
\* checkout, the lines after it are still updated (current_stock and
\* reserved_stock lowered by their quantity) and the lines before it stay updated.
C19_CheckoutContinuesAfterFailure ==
    [][(last'.op = "checkout" /\ last'.ret = "aborted") =>
          LET lines == items[last'.cart] IN
          \A i \in 1..Len(lines) :
              i # last'.quantity =>
                  /\ inventory'[lines[i].product].current_stock =
                         Current(lines[i].product) - lines[i].quantity
                  /\ inventory'[lines[i].product].reserved_stock =
                         Max(0, Reserved(lines[i].product) - lines[i].quantity)]_vars

\* C19, amended: when the inventory call of one line fails during checkout, the
\* loop stops there.  The lines before it stay updated, that line and the lines
\* after it are not updated, the order record stays written and the cart and its
\* timers are left as they were.
C19_CheckoutStopsAtFailure ==
    [][(last'.op = "checkout" /\ last'.ret = "aborted") =>
          LET lines == items[last'.cart] IN
          /\ \A i \in 1..Len(lines) :
                IF i < last'.quantity
                THEN /\ inventory'[lines[i].product].current_stock =
                            Current(lines[i].product) - lines[i].quantity
                     /\ inventory'[lines[i].product].reserved_stock =
                            Max(0, Reserved(lines[i].product) - lines[i].quantity)
                ELSE inventory'[lines[i].product] = inventory[lines[i].product]
          /\ Len(orders') = Len(orders) + 1
          /\ items' = items
          /\ reservationTimeouts' = reservationTimeouts]_vars

\* a checkout of two lines was aborted at the second: the first line is deducted,
\* the order is written and the cart is still full
C19_Witness ==
    /\ last.op = "checkout"
    /\ last.ret = "aborted"
    /\ last.quantity = 2
    /\ Len(items[last.cart]) = 2
    /\ Current(items[last.cart][1].product) = MaxStock - items[last.cart][1].quantity
    /\ Current(items[last.cart][2].product) = MaxStock
    /\ Len(orders) >= 1

\* the reservation ids client c sets out to release in the step recorded in last'
ReleasedIds(c) ==
    IF last'.op = "timer" THEN {last'.quantity}
    ELSE IF last'.op = "removeItem" THEN {TokenOfLine(c, last'.product)}
    ELSE IF last'.op = "clearCart" THEN {items[c][i].reservationId : i \in 1..Len(items[c])}
    ELSE IF last'.op = "refreshReservations"
    THEN {items[c][i].reservationId : i \in {j \in 1..Len(items[c]) : Expired(items[c][j], now)}}
    ELSE {}

\* C20: a release always updates the local cart, also when its remote call
\* fails: whichever caller started it (removeItem, clearCart, expiry timer,
\* refreshReservations), afterwards no line carries the reservation id and no
\* expiry timer is pending for it.
C20_FailedReleaseStillUpdatesCart ==
    [][\A rid \in ReleasedIds(last'.cart) \ {NoReservation} :
          /\ FindReservation(items'[last'.cart], rid) = 0
          /\ \A t \in reservationTimeouts'[last'.cart] : t.id # rid]_vars

\* C21: no operation writes a negative current_stock or a negative
\* reserved_stock: both counters are at least 0 in every reachable state.
C21_CountersNeverNegative ==
    \A p \in Products : Current(p) >= 0 /\ Reserved(p) >= 0

\* the lines of client c whose reservation id was issued less than
\* RESERVATION_TIMEOUT ago: its expiry timer is not yet due
FreshLines(c) ==
    {i \in 1..Len(items[c]) :
        \E t \in reservationTimeouts[c] :
            t.id = items[c][i].reservationId /\ now < t.due}

\* C22: refreshReservations keeps every line whose current reservation id was
\* issued less than 15 minutes ago, however long the line has been in the cart.
C22_RefreshKeepsFreshTokens ==
    [][last'.op = "refreshReservations" =>
          \A i \in FreshLines(last'.cart) :
              \E j \in 1..Len(items'[last'.cart]) :
                  items'[last'.cart][j] = items[last'.cart][i]]_vars

\* C23: stock_status follows the counters after every write: out_of_stock when
\* current_stock <= 0, low_stock when 0 < current_stock <= reorder_level,
\* in_stock otherwise.
C23_StockStatusFollowsStock ==
    \A p \in Products :
        /\ inventory[p].stock_status = "out_of_stock" <=> Current(p) <= 0
        /\ inventory[p].stock_status = "low_stock" <=>
               (0 < Current(p) /\ Current(p) <= inventory[p].reorder_level)
        /\ inventory[p].stock_status = "in_stock" <=> Current(p) > inventory[p].reorder_level

\* C24: reserveStock(p, q) succeeds exactly when
\* q <= max(0, current_stock - reserved_stock) and then raises reserved_stock by
\* q; otherwise it throws and writes nothing.  releaseReservedStock(p, q) lowers
\* reserved_stock by q, floored at 0.  Neither touches current_stock.
C24_HookReserveAndRelease ==
    [][LET p == last'.product
           q == last'.quantity
       IN /\ last'.op = "reserveStock" =>
                IF q <= Max(0, Current(p) - Reserved(p))
                THEN /\ last'.ret = "true"
                     /\ inventory'[p].reserved_stock = Reserved(p) + q
                     /\ inventory'[p].current_stock = Current(p)
                ELSE /\ last'.ret = "threw"
                     /\ inventory' = inventory
          /\ last'.op = "releaseReservedStock" =>
                /\ inventory'[p].reserved_stock = (IF Reserved(p) >= q THEN Reserved(p) - q ELSE 0)
                /\ inventory'[p].current_stock = Current(p)]_vars

\* with all 10 units of 10 reserved, reserveStock(A, 1) has just thrown
C24_Witness ==
    /\ last.op = "reserveStock"
    /\ last.ret = "threw"
    /\ last.quantity = 1
    /\ Current("A") = 10
    /\ Reserved("A") = 10

\* C27: whenever updateQuantity returns false, the cart lines and every
\* product's reserved_stock are the same as before the call.
C27_FailedUpdateChangesNothing ==
    [][(last'.op = "updateQuantity" /\ last'.ret = "false") =>
          /\ items' = items
          /\ \A p \in Products : inventory'[p].reserved_stock = Reserved(p)]_vars

\* no addItem and no release is under way in any client
NothingInFlight == \A c \in Carts : adding[c] = {} /\ InFlight(c) = {}

\* C26: reservation accounting: while no call is under way, every product's
\* reserved_stock is its initial reserved amount (none) plus the quantities of
\* all cart lines of that product over all clients, also after reservations of
\* two clients overlapped.
C26_ReservedIsSumOfLines ==
    NothingInFlight =>
        \A p \in Products :
            Reserved(p) = QuantityOf(items["c1"], p) + QuantityOf(items["c2"], p)

\* C28: the cart holds at most one line per product, also after addItem calls
\* for one product that overlapped.
C28_OneLinePerProduct ==
    \A c \in Carts, p \in Products : Len(LinesOf(items[c], p)) <= 1

\* the address with this id is default and no other address is
IsOnlyDefault(addresses, id) ==
    /\ \E i \in 1..Len(addresses) : addresses[i].id = id
    /\ \A i \in 1..Len(addresses) : addresses[i].is_default <=> addresses[i].id = id

\* C25: after addShippingAddress succeeds, the new address is the user's only
\* default address whenever it is the first address or was submitted with
\* is_default set.
C25_NewAddressIsDefault ==
    [][\A r \in saving :
          (/\ last'.op = "profileSaved" /\ last'.ret = "void"
           /\ r \notin saving'
           /\ r.caller = "addShippingAddress"
           /\ (r.first \/ r.is_default))
          => IsOnlyDefault(user'.shipping_addresses, r.address)]_vars

\* C30: isAuthenticated is true exactly when user is not null, also when
\* logout completes while updateProfile is suspended on its save.
C30_AuthenticatedIffUser ==
    isAuthenticated <=> user # NoUser

\* C29: a checkout attempted while the user is not authenticated, or while the
\* cart is empty, writes no order, writes nothing to the inventory and leaves
\* the cart and its reservations as they are.
C29_RefusedCheckoutChangesNothing ==
    [][(/\ last'.op = "checkout"
        /\ (~isAuthenticated \/ items[last'.cart] = <<>>))
       => UNCHANGED <<orders, inventory, items, reservationTimeouts>>]_vars

\* a guest was refused with lines in the cart
C29_Witness ==
    /\ last.op = "checkout" /\ last.ret = "rejected"
    /\ ~isAuthenticated
    /\ items["c1"] # <<>>

====
